---- MODULE Spec2Model ----
\* A model of FileParser (src/src/file_parser.py): one run of parse_file over one
\* source file, with the staged split / parse / unify-schema / tabularize / merge
\* pipeline, the file system it works through, and the parallel executor's tasks.
EXTENDS Integers, Sequences, FiniteSets, TLC

\* ---------------------------------------------------------------- bounds

\* Longest source file, in lines, among the exhaustively enumerated inputs.
MaxLines == 2
\* Tasks the parallel executor runs at once (max_processes / max_threads).
MaxWorkers == 2
\* The two values of parse_chunk_size tried, in bytes.
SmallChunk == 4
LargeChunk == 12
\* Length, in lines, of the one long source file (more than nine chunks).
LongLines == 11

\* ---------------------------------------------------------------- text

\* A text is a sequence of one-character strings; a line of a log file is a text
\* that ends with "\n".
NL == "\n"
Whitespace == {" ", NL}

LineInfoA == <<"I", "a", "1", NL>>
LineInfoAB == <<"I", "a", "2", "b", "x", NL>>
LineGarbage == <<" ", "G", " ", NL>>
LineWarn == <<"W", NL>>
LineBoom == <<"I", "!", NL>>
LineBlank == <<NL>>
LineInfoB == <<"I", "b", "x", NL>>
LineOther == <<" ", "H", " ", NL>>

LineKinds == {LineInfoA, LineInfoAB, LineGarbage, LineWarn, LineBoom, LineBlank}

RECURSIVE SeqsUpTo(_, _)
SeqsUpTo(S, n) ==
    IF n = 0 THEN {<<>>}
    ELSE LET shorter == SeqsUpTo(S, n - 1)
         IN  shorter \cup {Append(s, x) : s \in {t \in shorter : Len(t) = n - 1}, x \in S}

\* The long file: LongLines lines, every one of them the size of the small chunk; the
\* lines after the ninth differ from the lines before.
LongFile ==
    [i \in 1..LongLines |->
        IF i % 2 = 1 THEN (IF i > 9 THEN LineInfoB ELSE LineInfoA)
        ELSE (IF i > 9 THEN LineOther ELSE LineGarbage)]

\* str.strip(): leading and trailing whitespace removed.
\* A file of short lines, several of which fit in the small chunk.
PackedFile == <<LineWarn, LineBlank, LineInfoA, LineWarn, LineWarn>>

RECURSIVE LStrip(_)
LStrip(s) == IF s # <<>> /\ Head(s) \in Whitespace THEN LStrip(Tail(s)) ELSE s

RECURSIVE RStrip(_)
RStrip(s) ==
    IF s # <<>> /\ s[Len(s)] \in Whitespace THEN RStrip(SubSeq(s, 1, Len(s) - 1)) ELSE s

Strip(s) == LStrip(RStrip(s))

RECURSIVE Concat(_)
Concat(ss) == IF ss = <<>> THEN <<>> ELSE Head(ss) \o Concat(Tail(ss))

RECURSIVE Bytes(_)
Bytes(lines) == IF lines = <<>> THEN 0 ELSE Len(Head(lines)) + Bytes(Tail(lines))

Range(f) == {f[x] : x \in DOMAIN f}

\* ---------------------------------------------------------------- parser plugins

\* LogParser.parse(line): a record (an insertion-ordered sequence of <<key, value>>
\* pairs of texts), the UnparsableLogError signal, or any other exception.
FieldNames == {"a", "b"}

RECURSIVE InfoFields(_)
InfoFields(body) ==
    IF Len(body) < 2 THEN <<>>
    ELSE <<<< <<body[1]>>, <<body[2]>> >>>> \o InfoFields(SubSeq(body, 3, Len(body)))

InfoRecord(body) ==
    IF Len(body) % 2 = 1 \/ \E i \in 1..Len(body) : i % 2 = 1 /\ body[i] \notin FieldNames
    THEN [kind |-> "fault"]
    ELSE [kind |-> "record", record |-> InfoFields(body)]

InfoParse(line) ==
    IF line = <<>> \/ Head(line) # "I" THEN [kind |-> "unparsable"]
    ELSE InfoRecord(RStrip(Tail(line)))

LvlParse(line) ==
    IF line # <<>> /\ Head(line) \in {"I", "W"}
    THEN [kind |-> "record", record |-> << << <<"_", "l">>, <<Head(line)>> >> >>]
    ELSE [kind |-> "unparsable"]

Parse(short_name, line) ==
    IF short_name = "info" THEN InfoParse(line) ELSE LvlParse(line)

ParserLists == {<<"info", "lvl">>, <<"lvl", "info">>, <<"info">>}

\* ---------------------------------------------------------------- file names

\* A file name is a sequence of tokens: a stem ("chunk_" or the source file's base
\* name), the decimal digits of a chunk ID one by one, and extensions, each with its
\* leading dot: chunk_10.info.records is <<"chunk_", "1", "0", ".info", ".records">>.
DigitChars == <<"0", "1", "2", "3", "4", "5", "6", "7", "8", "9">>
ExtTokens == {".info", ".keys", ".log", ".lvl", ".na", ".records", ".tsv"}
\* The tokens in the order of their text (ASCII).
TokensInOrder ==
    <<".info", ".keys", ".log", ".lvl", ".na", ".records", ".tsv">> \o DigitChars \o <<"chunk_", "src">>

IsDigit(t) == \E d \in 1..10 : DigitChars[d] = t
DigitValue(t) == (CHOOSE d \in 1..10 : DigitChars[d] = t) - 1
TokCode(t) == CHOOSE i \in 1..Len(TokensInOrder) : TokensInOrder[i] = t

RECURSIVE Digits(_)
Digits(n) ==
    IF n < 10 THEN <<DigitChars[n + 1]>>
    ELSE Append(Digits(n \div 10), DigitChars[(n % 10) + 1])

\* int(text) of a run of digits.
RECURSIVE IntOf(_)
IntOf(digits) ==
    IF digits = <<>> THEN 0
    ELSE 10 * IntOf(SubSeq(digits, 1, Len(digits) - 1)) + DigitValue(digits[Len(digits)])

\* The text order of two names (str comparison), used for directory listings.
RECURSIVE NameLess(_, _)
NameLess(a, b) ==
    IF a = <<>> THEN b # <<>>
    ELSE IF b = <<>> THEN FALSE
    ELSE IF Head(a) = Head(b) THEN NameLess(Tail(a), Tail(b))
    ELSE TokCode(Head(a)) < TokCode(Head(b))

\* FileParser class attributes.
unparsed_short_name == "na"
records_ext == ".records"
keys_ext == ".keys"
\* The extension the table export writes.
tsv_ext == ".tsv"

\* "." + short_name, as the f-strings that build the file names write it.
DotName(short_name) ==
    CASE short_name = "info" -> ".info"
      [] short_name = "lvl" -> ".lvl"
      [] short_name = unparsed_short_name -> ".na"

\* os.path.splitext on a file name: <<base, extension>>, the extension empty when the
\* name has none.
split_file_path(name) ==
    IF Len(name) > 1 /\ name[Len(name)] \in ExtTokens
    THEN <<SubSeq(name, 1, Len(name) - 1), <<name[Len(name)]>> >>
    ELSE <<name, <<>> >>

\* FILE_CHUNK_SORT_MASK = ^chunk_(?P<id>\d+)(?:[.].*)?$ : the digits of group id.
RECURSIVE DigitRun(_)
DigitRun(toks) ==
    IF toks # <<>> /\ IsDigit(Head(toks)) THEN <<Head(toks)>> \o DigitRun(Tail(toks)) ELSE <<>>

MaskId(name) == DigitRun(Tail(name))

FILE_CHUNK_SORT_MASK(name) ==
    /\ name # <<>>
    /\ Head(name) = "chunk_"
    /\ MaskId(name) # <<>>
    /\ LET rest == SubSeq(name, 2 + Len(MaskId(name)), Len(name))
       IN  rest = <<>> \/ Head(rest) \in ExtTokens

\* The sort key of get_sorted_chunk_names: int(match.group('id')).
SortKey(name) == IntOf(MaskId(name))

\* sorted(chunk_names, key=key): a stable sort, by insertion.
RECURSIVE InsertByKey(_, _)
InsertByKey(sorted, x) ==
    IF sorted = <<>> THEN <<x>>
    ELSE IF SortKey(Head(sorted)) <= SortKey(x)
         THEN <<Head(sorted)>> \o InsertByKey(Tail(sorted), x)
         ELSE <<x>> \o sorted

\* sorted(chunk_names) without the key: the names in the order of their text.
RECURSIVE InsertByText(_, _)
InsertByText(sorted, x) ==
    IF sorted = <<>> THEN <<x>>
    ELSE IF NameLess(x, Head(sorted)) THEN <<x>> \o sorted
         ELSE <<Head(sorted)>> \o InsertByText(Tail(sorted), x)

RECURSIVE SortedByText(_)
SortedByText(names) ==
    IF names = <<>> THEN <<>>
    ELSE InsertByText(SortedByText(SubSeq(names, 1, Len(names) - 1)), names[Len(names)])

RECURSIVE SortedByKey(_)
SortedByKey(names) ==
    IF names = <<>> THEN <<>>
    ELSE InsertByKey(SortedByKey(SubSeq(names, 1, Len(names) - 1)), names[Len(names)])

\* ---------------------------------------------------------------- file system

\* A directory is a sequence of components; a file path is <<directory, name>>.
SrcDir == <<"logs">>
SrcName == <<"src", ".log">>
SrcPath == <<SrcDir, SrcName>>
OutDir == <<"out">>
SplitDir == <<"out", ".0_split">>
ParsedDir == <<"out", ".1_parsed">>
TabularizedDir == <<"out", ".2_tabularized">>

\* The names of the files of a directory.
NamesIn(fs, dir) == {p[2] : p \in {q \in DOMAIN fs : q[1] = dir}}

\* os.listdir returns the names in an arbitrary order; the orders modelled are the
\* text order of the names, its reverse, and the text order rotated by half.
ListOrders == {"asc", "desc", "rot"}

RECURSIVE InTextOrder(_)
InTextOrder(S) ==
    IF S = {} THEN <<>>
    ELSE LET least == CHOOSE x \in S : \A y \in S \ {x} : NameLess(x, y)
         IN  <<least>> \o InTextOrder(S \ {least})

Reverse(s) == [i \in 1..Len(s) |-> s[Len(s) + 1 - i]]

Reordered(asc, order) ==
    CASE order = "asc" -> asc
      [] order = "desc" -> Reverse(asc)
      [] OTHER -> SubSeq(asc, (Len(asc) + 1) \div 2 + 1, Len(asc))
                  \o SubSeq(asc, 1, (Len(asc) + 1) \div 2)

listdir(fs, dir, order) == Reordered(InTextOrder(NamesIn(fs, dir)), order)

MatchesMask(mask, name) == mask = ".*" \/ name[Len(name)] = mask

\* The sort of get_sorted_chunk_names; the sort key asserts that the name matches
\* FILE_CHUNK_SORT_MASK.
SortChunkNames(chunk_names) ==
    IF \E i \in 1..Len(chunk_names) : ~FILE_CHUNK_SORT_MASK(chunk_names[i])
    THEN [exc |-> "AssertionError", names |-> <<>>]
    ELSE [exc |-> "none", names |-> SortedByKey(chunk_names)]

\* get_sorted_chunk_names: the names of src_dir_path matching mask (".*", or the
\* extension the name must end with), sorted by chunk ID. exc is the exception raised:
\* FileNotFoundError by os.listdir, AssertionError by the sort key.
get_sorted_chunk_names(fs, ds, src_dir_path, mask, order) ==
    IF src_dir_path \notin ds THEN [exc |-> "FileNotFoundError", names |-> <<>>]
    ELSE SortChunkNames(SelectSeq(listdir(fs, src_dir_path, order),
                                  LAMBDA f : MatchesMask(mask, f)))

IsPrefix(d, e) == Len(d) <= Len(e) /\ SubSeq(e, 1, Len(d)) = d

\* _create_temp_directory: nothing when the path exists (the FileExistsError is
\* constructed but not raised), os.makedirs otherwise.
create_temp_directory(ds, dir_path, exist_ok) ==
    IF dir_path \in ds
    THEN [exc |-> "none", dirs |-> ds]
    ELSE [exc |-> "none", dirs |-> ds \cup {SubSeq(dir_path, 1, n) : n \in 1..Len(dir_path)}]

\* _remove_temp_directory without the test of delete_intermediate_result_dirs.
remove_temp_directory_always(fs, ds, dir_path, delete) ==
    IF dir_path \notin ds THEN [exc |-> "FileNotFoundError", files |-> fs, dirs |-> ds]
    ELSE [exc |-> "none",
          files |-> [q \in {r \in DOMAIN fs : ~IsPrefix(dir_path, r[1])} |-> fs[q]],
          dirs |-> {d \in ds : ~IsPrefix(dir_path, d)}]

\* _remove_temp_directory: shutil.rmtree when delete_intermediate_result_dirs is set.
remove_temp_directory(fs, ds, dir_path, delete) ==
    IF ~delete THEN [exc |-> "none", files |-> fs, dirs |-> ds]
    ELSE IF dir_path \notin ds THEN [exc |-> "FileNotFoundError", files |-> fs, dirs |-> ds]
    ELSE [exc |-> "none",
          files |-> [q \in {r \in DOMAIN fs : ~IsPrefix(dir_path, r[1])} |-> fs[q]],
          dirs |-> {d \in ds : ~IsPrefix(dir_path, d)}]

\* fs with the file at path written (created or replaced).
WriteFile(fs, path, content) ==
    [q \in DOMAIN fs \cup {path} |-> IF q = path THEN content ELSE fs[q]]

\* ---------------------------------------------------------------- splitter

\* The lines of a text: the pieces that end with a line end, and what follows the last.
RECURSIVE LinesOfText(_, _)
LinesOfText(text, current) ==
    IF text = <<>> THEN (IF current = <<>> THEN <<>> ELSE <<current>>)
    ELSE IF Head(text) = NL THEN <<Append(current, NL)>> \o LinesOfText(Tail(text), <<>>)
    ELSE LinesOfText(Tail(text), Append(current, Head(text)))

\* Filesplit.split(newline=False): the bytes of the file cut every split_size bytes.
RECURSIVE BytesplitText(_, _)
BytesplitText(text, split_size) ==
    IF Len(text) <= split_size THEN <<LinesOfText(text, <<>>)>>
    ELSE <<LinesOfText(SubSeq(text, 1, split_size), <<>>)>>
         \o BytesplitText(SubSeq(text, split_size + 1, Len(text)), split_size)

FilesplitBytes(lines, current, split_size) == BytesplitText(Concat(lines), split_size)

\* Filesplit.split(newline=True): lines are written to the current chunk while they
\* fit in split_size; a line that does not fit opens the next chunk, and a line
\* longer than split_size has a chunk of its own.
RECURSIVE FilesplitChunks(_, _, _)
FilesplitChunks(lines, current, split_size) ==
    IF lines = <<>> THEN (IF current = <<>> THEN <<>> ELSE <<current>>)
    ELSE IF current # <<>> /\ Bytes(current) + Len(Head(lines)) > split_size
         THEN <<current>> \o FilesplitChunks(lines, <<>>, split_size)
         ELSE FilesplitChunks(Tail(lines), Append(current, Head(lines)), split_size)

ChunkName(chunk_id, extension) == <<"chunk_">> \o Digits(chunk_id) \o extension

\* _split_file_into_chunks without the test of the size: the file is always split.
ChunksOfAlwaysSplit(content, chunk_byte_size) == FilesplitChunks(content, <<>>, chunk_byte_size)

\* _split_file_into_chunks: the contents of the chunk files, in chunk-ID order; the
\* file is split when it is bigger than chunk_byte_size, and copied otherwise.
ChunksOf(content, chunk_byte_size) ==
    IF Bytes(content) > chunk_byte_size
    THEN FilesplitChunks(content, <<>>, chunk_byte_size)
    ELSE <<content>>

\* fs with the chunk files of chunks written to dst_dir_path.
WriteChunks(fs, dst_dir_path, extension, chunks) ==
    [q \in DOMAIN fs \cup {<<dst_dir_path, ChunkName(i, extension)>> : i \in 1..Len(chunks)} |->
        IF q[1] = dst_dir_path THEN chunks[SortKey(q[2])] ELSE fs[q]]

split_file_into_chunks(fs, src_file_path, dst_dir_path, chunk_byte_size) ==
    WriteChunks(fs, dst_dir_path, split_file_path(src_file_path[2])[2],
                ChunksOf(fs[src_file_path], chunk_byte_size))

\* ---------------------------------------------------------------- chunk parser

\* The inner loop of _parse_file_chunk over the parsers, from the parser at index i:
\* the first parser that returns a record claims the line; tried is the index of the
\* last parser called.
RECURSIVE TryParsers(_, _, _)
\* TryResult without the break: the parsers after a match are tried too, and the last
\* one that returns a record claims the line.
LastMatch(parsers, i, r, later) ==
    IF later.kind = "unparsed"
    THEN [kind |-> "record", tried |-> later.tried, parser_name |-> parsers[i], record |-> r.record]
    ELSE later

TryResultNoBreak(parsers, i, log_entry, r) ==
    CASE r.kind = "record" -> LastMatch(parsers, i, r, TryParsers(parsers, i + 1, log_entry))
      [] r.kind = "unparsable" -> TryParsers(parsers, i + 1, log_entry)
      [] OTHER -> [kind |-> "fault", tried |-> i]

TryResult(parsers, i, log_entry, r) ==
    CASE r.kind = "record" ->
            [kind |-> "record", tried |-> i, parser_name |-> parsers[i], record |-> r.record]
      [] r.kind = "unparsable" -> TryParsers(parsers, i + 1, log_entry)
      [] OTHER -> [kind |-> "fault", tried |-> i]

TryParsers(parsers, i, log_entry) ==
    IF i > Len(parsers) THEN [kind |-> "unparsed", tried |-> Len(parsers)]
    ELSE TryResult(parsers, i, log_entry, Parse(parsers[i], log_entry))

RecordKeys(record) == {record[i][1] : i \in 1..Len(record)}

ParsedNothing(parsers) ==
    [exc |-> "none",
     records_dict |-> [k \in Range(parsers) |-> <<>>],
     keys_dict |-> [k \in Range(parsers) |-> {}],
     unparsed_logs |-> <<>>,
     calls |-> {}]

\* ParsedLine dropping the unparsed lines that are blank once stripped.
ParsedLineDropBlank(parsers, acc, log_entry, t) ==
    CASE t.kind = "record" ->
            [acc EXCEPT !.records_dict[t.parser_name] = Append(@, t.record),
                        !.keys_dict[t.parser_name] = @ \cup RecordKeys(t.record),
                        !.calls = @ \cup {<<parsers[i], log_entry>> : i \in 1..t.tried}]
      [] t.kind = "unparsed" ->
            [acc EXCEPT !.unparsed_logs = IF Strip(log_entry) = <<>> THEN @
                                          ELSE Append(@, Strip(log_entry)),
                        !.calls = @ \cup {<<parsers[i], log_entry>> : i \in 1..t.tried}]
      [] OTHER ->
            [acc EXCEPT !.exc = "ParserError",
                        !.calls = @ \cup {<<parsers[i], log_entry>> : i \in 1..t.tried}]

\* One line of the loop of _parse_file_chunk: acc after log_entry, which the parsers
\* answered with t.
ParsedLine(parsers, acc, log_entry, t) ==
    CASE t.kind = "record" ->
            [acc EXCEPT !.records_dict[t.parser_name] = Append(@, t.record),
                        !.keys_dict[t.parser_name] = @ \cup RecordKeys(t.record),
                        !.calls = @ \cup {<<parsers[i], log_entry>> : i \in 1..t.tried}]
      [] t.kind = "unparsed" ->
            [acc EXCEPT !.unparsed_logs = Append(@, Strip(log_entry)),
                        !.calls = @ \cup {<<parsers[i], log_entry>> : i \in 1..t.tried}]
      [] OTHER ->
            [acc EXCEPT !.exc = "ParserError",
                        !.calls = @ \cup {<<parsers[i], log_entry>> : i \in 1..t.tried}]

\* The loop of _parse_file_chunk over the lines of the chunk; an exception ends it.
RECURSIVE ParseLines(_, _, _)
ParseLines(lines, parsers, acc) ==
    IF lines = <<>> \/ acc.exc # "none" THEN acc
    ELSE ParseLines(Tail(lines), parsers,
                    ParsedLine(parsers, acc, Head(lines), TryParsers(parsers, 1, Head(lines))))

\* str(record): the record's keys and values in insertion order.
RECURSIVE Repr(_)
Repr(record) ==
    IF record = <<>> THEN <<>>
    ELSE <<Head(record)[1], Head(record)[2]>> \o Repr(Tail(record))

\* eval(line): the dictionary a records line denotes, as a function on its keys.
RECURSIVE EvalPairs(_)
EvalPairs(line) ==
    IF Len(line) < 2 THEN {}
    ELSE {<<line[1], line[2]>>} \cup EvalPairs(SubSeq(line, 3, Len(line)))

DictOf(pairs) == [k \in {q[1] : q \in pairs} |-> (CHOOSE q \in pairs : q[1] = k)[2]]

Eval(line) == DictOf(EvalPairs(line))

RecordsPath(dst_dir_path, src_file_name, k) ==
    <<Append(dst_dir_path, k), src_file_name \o <<DotName(k), records_ext>> >>

KeysPath(dst_dir_path, src_file_name, k) ==
    <<Append(dst_dir_path, k), src_file_name \o <<DotName(k), keys_ext>> >>

\* _persist_parsed_data writing the files of the parsers that have records only.
persist_parsed_data_nonempty(fs, src_file_name, dst_dir_path, records_dict, keys_dict) ==
    [q \in DOMAIN fs
           \cup {RecordsPath(dst_dir_path, src_file_name, k) :
                     k \in {n \in DOMAIN records_dict : records_dict[n] # <<>>}}
           \cup {KeysPath(dst_dir_path, src_file_name, k) :
                     k \in {n \in DOMAIN keys_dict : records_dict[n] # <<>>}} |->
        IF \E k \in DOMAIN records_dict : RecordsPath(dst_dir_path, src_file_name, k) = q
        THEN [i \in 1..Len(records_dict[q[1][Len(q[1])]]) |-> Repr(records_dict[q[1][Len(q[1])]][i])]
        ELSE IF \E k \in DOMAIN keys_dict : KeysPath(dst_dir_path, src_file_name, k) = q
        THEN keys_dict[q[1][Len(q[1])]]
        ELSE fs[q]]

\* _persist_parsed_data: a records and a keys file for every parser. A keys file
\* holds one key per line in the iteration order of a set, which is arbitrary: the
\* file is held as the set of its lines.
persist_parsed_data(fs, src_file_name, dst_dir_path, records_dict, keys_dict) ==
    [q \in DOMAIN fs
           \cup {RecordsPath(dst_dir_path, src_file_name, k) : k \in DOMAIN records_dict}
           \cup {KeysPath(dst_dir_path, src_file_name, k) : k \in DOMAIN keys_dict} |->
        IF \E k \in DOMAIN records_dict : RecordsPath(dst_dir_path, src_file_name, k) = q
        THEN [i \in 1..Len(records_dict[q[1][Len(q[1])]]) |-> Repr(records_dict[q[1][Len(q[1])]][i])]
        ELSE IF \E k \in DOMAIN keys_dict : KeysPath(dst_dir_path, src_file_name, k) = q
        THEN keys_dict[q[1][Len(q[1])]]
        ELSE fs[q]]

\* The directories _persist_parsed_data and _persist_unparsed_logs create.
PersistedDirs(ds, dst_dir_path, names) ==
    ds \cup UNION {create_temp_directory(ds, Append(dst_dir_path, k), TRUE).dirs : k \in names}

\* _persist_unparsed_logs: every unparsed log with a line end.
persist_unparsed_logs(fs, src_file_name, dst_dir_path, file_ext, unparsed_logs) ==
    WriteFile(fs,
              <<Append(dst_dir_path, unparsed_short_name),
                src_file_name \o <<DotName(unparsed_short_name)>> \o file_ext>>,
              [i \in 1..Len(unparsed_logs) |-> Append(unparsed_logs[i], NL)])

\* The end of _parse_file_chunk persisting what the loop gathered before it raised.
PersistChunkPartial(fs, ds, parsers, parts, dst_dir_path, parsed) ==
    [exc |-> parsed.exc,
     files |-> persist_unparsed_logs(
                   persist_parsed_data(fs, parts[1], dst_dir_path,
                                       parsed.records_dict, parsed.keys_dict),
                   parts[1], dst_dir_path, parts[2], parsed.unparsed_logs),
     dirs |-> PersistedDirs(ds, dst_dir_path, Range(parsers) \cup {unparsed_short_name}),
     calls |-> parsed.calls]

\* The end of _parse_file_chunk: nothing is written when the loop raised.
PersistChunk(fs, ds, parsers, parts, dst_dir_path, parsed) ==
    IF parsed.exc # "none"
    THEN [exc |-> parsed.exc, files |-> fs, dirs |-> ds, calls |-> parsed.calls]
    ELSE [exc |-> "none",
          files |-> persist_unparsed_logs(
                        persist_parsed_data(fs, parts[1], dst_dir_path,
                                            parsed.records_dict, parsed.keys_dict),
                        parts[1], dst_dir_path, parts[2], parsed.unparsed_logs),
          dirs |-> PersistedDirs(ds, dst_dir_path, Range(parsers) \cup {unparsed_short_name}),
          calls |-> parsed.calls]

\* _parse_file_chunk on the chunk file src_file_path: what it raises, the files and
\* directories after it, and the calls of parse it made.
parse_file_chunk(fs, ds, parsers, src_file_path, dst_dir_path) ==
    PersistChunk(fs, ds, parsers, split_file_path(src_file_path[2]), dst_dir_path,
                 ParseLines(fs[src_file_path], parsers, ParsedNothing(parsers)))

\* ---------------------------------------------------------------- schema unifier

\* The characters of keys in the order of their code points, and str.lower().
CharsInOrder == <<"0", "1", "A", "B", "Z", "_", "a", "b", "l", "x", "z">>
CharCode(c) == CHOOSE i \in 1..Len(CharsInOrder) : CharsInOrder[i] = c
Lower(c) ==
    CASE c = "A" -> "a"
      [] c = "B" -> "b"
      [] c = "Z" -> "z"
      [] OTHER -> c

\* The sort key without str.lower(): the order of the code points, capitals first.
HeaderKeyCaseSensitive(x) == <<IF x # <<>> /\ Head(x) = "_" THEN "0" ELSE "1">> \o x

\* The sort key of _get_final_table_headers: '0' + lower for user fields (starting
\* with '_'), '1' + lower for the others.
HeaderKey(x) ==
    <<IF x # <<>> /\ Head(x) = "_" THEN "0" ELSE "1">> \o [i \in 1..Len(x) |-> Lower(x[i])]

RECURSIVE TextLess(_, _)
TextLess(a, b) ==
    IF a = <<>> THEN b # <<>>
    ELSE IF b = <<>> THEN FALSE
    ELSE IF Head(a) = Head(b) THEN TextLess(Tail(a), Tail(b))
    ELSE CharCode(Head(a)) < CharCode(Head(b))

\* sorted(unique_keys, key=...): the keys in the order of their sort keys. Keys with
\* equal sort keys (names that differ by case only) would keep the iteration order of
\* the set; the field names of the parsers modelled have distinct sort keys.
RECURSIVE SortedKeys(_)
SortedKeys(unique_keys) ==
    IF unique_keys = {} THEN <<>>
    ELSE LET first == CHOOSE x \in unique_keys :
                          \A y \in unique_keys : ~TextLess(HeaderKey(y), HeaderKey(x))
         IN  <<first>> \o SortedKeys(unique_keys \ {first})

\* UnifiedKeys reading the keys file of the first chunk only.
UnifiedKeysFirstChunk(fs, dir, listed) ==
    [exc |-> listed.exc,
     sorted_keys |-> SortedKeys(UNION {fs[<<dir, listed.names[i]>>] \ {<<>>} :
                                          i \in 1..(IF listed.names = <<>> THEN 0 ELSE 1)})]

\* The keys of the keys files named by listed, without the empty lines, sorted.
UnifiedKeys(fs, dir, listed) ==
    [exc |-> listed.exc,
     sorted_keys |-> SortedKeys(UNION {fs[<<dir, listed.names[i]>>] \ {<<>>} :
                                          i \in 1..Len(listed.names)})]

\* The body of the loop of _get_final_table_headers for one parser.
ParserHeaders(fs, ds, src_dir_path, parser_name, order) ==
    UnifiedKeys(fs, Append(src_dir_path, parser_name),
                get_sorted_chunk_names(fs, ds, Append(src_dir_path, parser_name), keys_ext, order))

\* headers_dict, or the exception of the first parser whose loop body raised.
HeadersDict(parsers, per) ==
    IF \E i \in 1..Len(parsers) : per[parsers[i]].exc # "none"
    THEN [exc |-> per[parsers[CHOOSE i \in 1..Len(parsers) :
                                 /\ per[parsers[i]].exc # "none"
                                 /\ \A j \in 1..(i - 1) : per[parsers[j]].exc = "none"]].exc,
          headers_dict |-> << >>]
    ELSE [exc |-> "none", headers_dict |-> [k \in Range(parsers) |-> per[k].sorted_keys]]

\* _get_final_table_headers: the header list of every parser.
get_final_table_headers(fs, ds, parsers, src_dir_path, order) ==
    HeadersDict(parsers, [k \in Range(parsers) |-> ParserHeaders(fs, ds, src_dir_path, k, order)])

\* ---------------------------------------------------------------- tabularizer

\* The empty cell of a field a record lacks.
NullCell == <<>>

RECURSIVE NewColumns(_, _)
NewColumns(records, columns) ==
    IF records = <<>> THEN <<>>
    ELSE LET extra == SelectSeq([i \in 1..(Len(Head(records)) \div 2) |-> Head(records)[2 * i - 1]],
                                LAMBDA k : k \notin Range(columns))
         IN  extra \o NewColumns(Tail(records), columns \o extra)

\* The table with the text nan in the cells of the fields a record lacks.
FrameNaN(columns, records) ==
    [columns |-> columns,
     rows |-> [i \in 1..Len(records) |->
                  [c \in 1..Len(columns) |->
                      IF columns[c] \in DOMAIN records[i] THEN records[i][columns[c]]
                      ELSE <<"n", "a", "n">>]]]

\* The table of records under columns: a cell holds the record's value, or is empty.
Frame(columns, records) ==
    [columns |-> columns,
     rows |-> [i \in 1..Len(records) |->
                  [c \in 1..Len(columns) |->
                      IF columns[c] \in DOMAIN records[i] THEN records[i][columns[c]]
                      ELSE NullCell]]]

\* pd.DataFrame().append(records): the columns are the keys of the chunk's own records.
DataFrameOwnColumns(table_headers, lines) ==
    Frame(NewColumns(lines, <<>>), [i \in 1..Len(lines) |-> Eval(lines[i])])

\* pd.DataFrame(columns=table_headers).append(records): the columns are the headers,
\* followed by the keys of the records that are not among them.
DataFrame(table_headers, lines) ==
    Frame(table_headers \o NewColumns(lines, table_headers),
          [i \in 1..Len(lines) |-> Eval(lines[i])])

\* df2tsv: the header line, then one line per row.
df2tsv(df) == <<df.columns>> \o df.rows

\* _tabularize_parsed_chunk exporting a table for a records file with records only.
tabularize_parsed_chunk_nonempty(fs, parser_name, src_file_path, dst_dir_path, table_headers) ==
    IF fs[src_file_path] = <<>> THEN fs
    ELSE WriteFile(fs,
                   <<Append(dst_dir_path, parser_name),
                     Append(split_file_path(src_file_path[2])[1], tsv_ext)>>,
                   df2tsv(DataFrame(table_headers, fs[src_file_path])))

\* _tabularize_parsed_chunk of the records file src_file_path.
tabularize_parsed_chunk(fs, parser_name, src_file_path, dst_dir_path, table_headers) ==
    WriteFile(fs,
              <<Append(dst_dir_path, parser_name),
                Append(split_file_path(src_file_path[2])[1], tsv_ext)>>,
              df2tsv(DataFrame(table_headers, fs[src_file_path])))

\* ---------------------------------------------------------------- merger

\* open(dst, 'a+') and writelines: lines appended to the file, created when absent.
AppendLines(fs, path, lines) ==
    WriteFile(fs, path, (IF path \in DOMAIN fs THEN fs[path] ELSE <<>>) \o lines)

\* The concatenation loop without next(table_file): every chunk file is appended whole.
RECURSIVE ConcatenateFromWhole(_, _, _, _, _, _)
ConcatenateFromWhole(fs, dir, names, i, dst_file_path, skip_header) ==
    IF i > Len(names) THEN [exc |-> "none", files |-> fs]
    ELSE ConcatenateFromWhole(AppendLines(fs, dst_file_path, fs[<<dir, names[i]>>]),
                              dir, names, i + 1, dst_file_path, skip_header)

\* The concatenation loops: the chunk files of dir named names, from index i on, are
\* appended to dst; with skip_header, next(table_file) drops the first line of every
\* file but the first, and raises StopIteration on a file without lines.
RECURSIVE ConcatenateFrom(_, _, _, _, _, _)
ConcatenateFrom(fs, dir, names, i, dst_file_path, skip_header) ==
    IF i > Len(names) THEN [exc |-> "none", files |-> fs]
    ELSE IF skip_header /\ i > 1 /\ fs[<<dir, names[i]>>] = <<>>
    THEN [exc |-> "StopIteration", files |-> AppendLines(fs, dst_file_path, <<>>)]
    ELSE ConcatenateFrom(
             AppendLines(fs, dst_file_path,
                         IF skip_header /\ i > 1 THEN Tail(fs[<<dir, names[i]>>])
                         ELSE fs[<<dir, names[i]>>]),
             dir, names, i + 1, dst_file_path, skip_header)

\* The merge of the chunk files listed into the final file of short_name; the
\* extension is the one of the first chunk file.
ConcatenateListed(fs, dir, listed, dst_dir_path, orig_base, short_name, skip_header) ==
    IF listed.exc # "none" THEN [exc |-> listed.exc, files |-> fs]
    ELSE IF listed.names = <<>> THEN [exc |-> "IndexError", files |-> fs]
    ELSE ConcatenateFrom(fs, dir, listed.names, 1,
             <<dst_dir_path,
               orig_base \o <<DotName(short_name)>> \o split_file_path(listed.names[1])[2]>>,
             skip_header)

ConcatenateDir(fs, ds, dir, dst_dir_path, orig_base, short_name, order, skip_header) ==
    ConcatenateListed(fs, dir, get_sorted_chunk_names(fs, ds, dir, ".*", order),
                      dst_dir_path, orig_base, short_name, skip_header)

\* _concatenate_unparsed_chunks.
concatenate_unparsed_chunks(fs, ds, src_dir_path, dst_dir_path, orig_base, order) ==
    ConcatenateDir(fs, ds, Append(src_dir_path, unparsed_short_name), dst_dir_path,
                   orig_base, unparsed_short_name, order, FALSE)

\* _concatenate_tabularized_chunks, from the parser at index n on: one final table
\* per parser, in the order of log_parsers; an exception ends the loop.
RECURSIVE ConcatenateTables(_, _, _, _, _, _, _, _)
NextTable(one, ds, parsers, n, src_dir_path, dst_dir_path, orig_base, order) ==
    IF one.exc # "none" THEN one
    ELSE ConcatenateTables(one.files, ds, parsers, n + 1, src_dir_path, dst_dir_path,
                           orig_base, order)

ConcatenateTables(fs, ds, parsers, n, src_dir_path, dst_dir_path, orig_base, order) ==
    IF n > Len(parsers) THEN [exc |-> "none", files |-> fs]
    ELSE NextTable(ConcatenateDir(fs, ds, Append(src_dir_path, parsers[n]), dst_dir_path,
                                  orig_base, parsers[n], order, TRUE),
                   ds, parsers, n, src_dir_path, dst_dir_path, orig_base, order)

concatenate_tabularized_chunks(fs, ds, parsers, src_dir_path, dst_dir_path, orig_base, order) ==
    ConcatenateTables(fs, ds, parsers, 1, src_dir_path, dst_dir_path, orig_base, order)

\* ---------------------------------------------------------------- state

VARIABLES
    files,                  \* the file system: path |-> content of every file
    dirs,                   \* the directories that exist
    log_parsers,            \* self.log_parsers: the short names, in configured order
    chunk_byte_size,        \* self.chunk_byte_size
    delete_intermediate_result_dirs,
    out_dir_path,           \* parse_file's argument: "None" or "given"
    pc,                     \* where parse_file is
    exc,                    \* the exception raised last, "none" when none was
    params_list,            \* the parameter tuples handed to execute_parallel_task
    done,                   \* the indices of the tasks that completed
    faulted,                \* the indices of the tasks that raised
    records_table_headers_dict,
    log,                    \* the records logged by parse_file, oldest first
    parse_calls,            \* the <<parser, line>> pairs parse was called with
    task_pc                 \* where the tasks that are under way are, task by task

vars == <<files, dirs, log_parsers, chunk_byte_size, delete_intermediate_result_dirs,
          out_dir_path, pc, exc, params_list, done, faulted, records_table_headers_dict,
          log, parse_calls, task_pc>>

config == <<log_parsers, chunk_byte_size, delete_intermediate_result_dirs, out_dir_path>>
tasks == <<params_list, done, faulted, task_pc>>

NoFiles == [q \in {} |-> <<>>]
SourceFiles == SeqsUpTo(LineKinds, MaxLines)
orig_file_name_base == split_file_path(SrcName)[1]

Init ==
    /\ \/ /\ files \in {NoFiles} \cup {[q \in {SrcPath} |-> content] : content \in SourceFiles}
          /\ dirs \in {{SrcDir}, {SrcDir, OutDir}}
          /\ log_parsers \in ParserLists
          /\ chunk_byte_size \in {SmallChunk, LargeChunk}
          /\ delete_intermediate_result_dirs \in BOOLEAN
          /\ out_dir_path \in {"None", "given"}
       \/ /\ files = [q \in {SrcPath} |-> LongFile]
          /\ dirs = {SrcDir}
          /\ log_parsers = <<"info", "lvl">>
          /\ chunk_byte_size = SmallChunk
          /\ delete_intermediate_result_dirs = TRUE
          /\ out_dir_path = "given"
       \/ /\ files = [q \in {SrcPath} |-> PackedFile]
          /\ dirs = {SrcDir}
          /\ log_parsers = <<"lvl", "info">>
          /\ chunk_byte_size = SmallChunk
          /\ delete_intermediate_result_dirs = FALSE
          /\ out_dir_path = "None"
    /\ pc = "call"
    /\ exc = "none"
    /\ params_list = <<>>
    /\ done = {}
    /\ faulted = {}
    /\ records_table_headers_dict = << >>
    /\ log = <<>>
    /\ parse_calls = {}
    /\ task_pc = << >>

\* ---------------------------------------------------------------- parse_file

\* The exception classes except OSError would catch.
ExceptionsOSError == {"FileExistsError", "FileNotFoundError"}

\* The exception classes except Exception catches.
Exceptions ==
    {"AssertionError", "FileExistsError", "FileNotFoundError", "IndexError",
     "StopIteration", "ParserError"}

\* The assertions of parse_file fail: the AssertionError reaches the caller.
ParseFilePrecondition ==
    /\ pc = "call"
    /\ SrcPath \notin DOMAIN files \/ (out_dir_path = "given" /\ OutDir \in dirs)
    /\ pc' = "raised"
    /\ exc' = "AssertionError"
    /\ UNCHANGED <<files, dirs, config, tasks, records_table_headers_dict, log, parse_calls>>

\* parse_file without the assertion on out_dir_path.
ParseFileBeginUnchecked ==
    /\ pc = "call"
    /\ SrcPath \in DOMAIN files
    /\ pc' = "init"
    /\ log' = Append(log, "info: Parsing")
    /\ UNCHANGED <<files, dirs, config, exc, tasks, records_table_headers_dict, parse_calls>>

ParseFileBegin ==
    /\ pc = "call"
    /\ SrcPath \in DOMAIN files
    /\ out_dir_path = "given" => OutDir \notin dirs
    /\ pc' = "init"
    /\ log' = Append(log, "info: Parsing")
    /\ UNCHANGED <<files, dirs, config, exc, tasks, records_table_headers_dict, parse_calls>>

\* os.makedirs(output_dir_path).
InitOutputDir ==
    /\ pc = "init"
    /\ IF OutDir \in dirs
       THEN /\ exc' = "FileExistsError"
            /\ pc' = "except"
            /\ UNCHANGED dirs
       ELSE /\ dirs' = dirs \cup {OutDir}
            /\ pc' = "stage_1"
            /\ UNCHANGED exc
    /\ UNCHANGED <<files, config, tasks, records_table_headers_dict, log, parse_calls>>

\* STAGE_1: the split directory and the chunk files.
Stage1Split ==
    /\ pc = "stage_1"
    /\ dirs' = create_temp_directory(dirs, SplitDir, FALSE).dirs
    /\ files' = split_file_into_chunks(files, SrcPath, SplitDir, chunk_byte_size)
    /\ pc' = "stage_2"
    /\ UNCHANGED <<config, exc, tasks, records_table_headers_dict, log, parse_calls>>

\* The parameter tuples of _parse_file_chunks: one per chunk file.
ParseParams(listed) ==
    /\ exc' = listed.exc
    /\ pc' = IF listed.exc = "none" THEN "stage_2_tasks" ELSE "except"
    /\ params_list' = [i \in 1..Len(listed.names) |-> <<SplitDir, listed.names[i]>>]
    /\ done' = {}
    /\ faulted' = {}
    /\ task_pc' = << >>

\* STAGE_2 up to execute_parallel_task.
Stage2Begin ==
    /\ pc = "stage_2"
    /\ dirs' = create_temp_directory(dirs, ParsedDir, FALSE).dirs
    /\ \E order \in ListOrders :
          ParseParams(get_sorted_chunk_names(files, dirs, SplitDir, ".*", order))
    /\ UNCHANGED <<files, config, records_table_headers_dict, log, parse_calls>>

\* execute_parallel_task starts the tasks in the order of params_list and runs at most
\* MaxWorkers of them at once: task i can complete when the tasks up to it and up to
\* the last finished task that have not finished are no more than MaxWorkers.
Finished == done \cup faulted
Started(i) == 1..(CHOOSE m \in Finished \cup {i} : \A j \in Finished \cup {i} : j <= m)
CanComplete(i) ==
    /\ i \in 1..Len(params_list)
    /\ i \notin Finished
    /\ Cardinality(Started(i) \ Finished) <= MaxWorkers

\* The end of task i of STAGE_2, r being what _parse_file_chunk did.
ParseTaskEnd(i, r) ==
    /\ files' = r.files
    /\ dirs' = r.dirs
    /\ parse_calls' = parse_calls \cup r.calls
    /\ done' = IF r.exc = "none" THEN done \cup {i} ELSE done
    /\ faulted' = IF r.exc = "none" THEN faulted ELSE faulted \cup {i}

\* One task of STAGE_2: _parse_file_chunk on one chunk file.
ParseTask(i) ==
    /\ pc = "stage_2_tasks"
    /\ CanComplete(i)
    /\ ParseTaskEnd(i, parse_file_chunk(files, dirs, log_parsers, params_list[i], ParsedDir))
    /\ UNCHANGED <<config, pc, exc, params_list, records_table_headers_dict, log, task_pc>>

\* The end of a stage that removes the directory it consumed.
StageEnd(removed, next_pc) ==
    /\ files' = removed.files
    /\ dirs' = removed.dirs
    /\ exc' = removed.exc
    /\ pc' = IF removed.exc = "none" THEN next_pc ELSE "except"

\* STAGE_2 going on without waiting for the tasks.
Stage2JoinEarly ==
    /\ pc = "stage_2_tasks"
    /\ faulted = {}
    /\ StageEnd(remove_temp_directory(files, dirs, SplitDir, FALSE), "stage_3")
    /\ UNCHANGED <<config, tasks, records_table_headers_dict, log, parse_calls>>

\* execute_parallel_task returns when every task completed; the split directory is
\* removed.
Stage2Join ==
    /\ pc = "stage_2_tasks"
    /\ done = 1..Len(params_list)
    /\ StageEnd(remove_temp_directory(files, dirs, SplitDir, delete_intermediate_result_dirs),
                "stage_3")
    /\ UNCHANGED <<config, tasks, records_table_headers_dict, log, parse_calls>>

\* execute_parallel_task surfaces the exception of a task that raised.
Stage2Fault ==
    /\ pc = "stage_2_tasks"
    /\ faulted # {}
    /\ exc' = "ParserError"
    /\ pc' = "except"
    /\ UNCHANGED <<files, dirs, config, tasks, records_table_headers_dict, log, parse_calls>>

HeadersEnd(got) ==
    /\ records_table_headers_dict' = got.headers_dict
    /\ exc' = got.exc
    /\ pc' = IF got.exc = "none" THEN "stage_4" ELSE "except"

\* STAGE_3: the header lists.
Stage3Headers ==
    /\ pc = "stage_3"
    /\ \E order \in ListOrders :
          HeadersEnd(get_final_table_headers(files, dirs, log_parsers, ParsedDir, order))
    /\ UNCHANGED <<files, dirs, config, tasks, log, parse_calls>>

\* The parameter tuples of _tabularize_parsed_chunks from the parser at index n on:
\* <<parser_name, src_file_path>> for every records file, parser by parser.
RECURSIVE TabularizeParams(_, _, _, _, _)
ParamsOf(fs, ds, parsers, n, order, listed) ==
    IF listed.exc # "none" THEN [exc |-> listed.exc, params |-> <<>>]
    ELSE [TabularizeParams(fs, ds, parsers, n + 1, order) EXCEPT
             !.params = [i \in 1..Len(listed.names) |->
                            <<parsers[n], <<Append(ParsedDir, parsers[n]), listed.names[i]>> >>]
                        \o @]

TabularizeParams(fs, ds, parsers, n, order) ==
    IF n > Len(parsers) THEN [exc |-> "none", params |-> <<>>]
    ELSE ParamsOf(fs, ds, parsers, n, order,
                  get_sorted_chunk_names(fs, ds, Append(ParsedDir, parsers[n]), records_ext, order))

TabularizeBegin(built) ==
    /\ params_list' = built.params
    /\ done' = {}
    /\ faulted' = {}
    /\ task_pc' = << >>
    /\ exc' = built.exc
    /\ pc' = IF built.exc = "none" THEN "stage_4_tasks" ELSE "except"

\* STAGE_4 up to execute_parallel_task.
Stage4Begin ==
    /\ pc = "stage_4"
    /\ dirs' = create_temp_directory(dirs, TabularizedDir, FALSE).dirs
    /\ \E order \in ListOrders :
          TabularizeBegin(TabularizeParams(files, dirs, log_parsers, 1, order))
    /\ UNCHANGED <<files, config, records_table_headers_dict, log, parse_calls>>

\* One task of STAGE_4: _tabularize_parsed_chunk on one records file.
TabularizeTask(i) ==
    /\ pc = "stage_4_tasks"
    /\ CanComplete(i)
    /\ files' = tabularize_parsed_chunk(files, params_list[i][1], params_list[i][2],
                                        TabularizedDir,
                                        records_table_headers_dict[params_list[i][1]])
    /\ dirs' = create_temp_directory(dirs, Append(TabularizedDir, params_list[i][1]), TRUE).dirs
    /\ done' = done \cup {i}
    /\ UNCHANGED <<config, pc, exc, params_list, faulted, records_table_headers_dict, log,
                   parse_calls, task_pc>>

Stage4Join ==
    /\ pc = "stage_4_tasks"
    /\ done = 1..Len(params_list)
    /\ pc' = "stage_5"
    /\ UNCHANGED <<files, dirs, config, exc, tasks, records_table_headers_dict, log, parse_calls>>

\* The end of a merge stage: the directory merged from is removed unless the merge
\* raised.
MergeEnd(merged, dir_path, next_pc) ==
    IF merged.exc # "none"
    THEN /\ files' = merged.files
         /\ exc' = merged.exc
         /\ pc' = "except"
         /\ UNCHANGED dirs
    ELSE StageEnd(remove_temp_directory(merged.files, dirs, dir_path,
                                        delete_intermediate_result_dirs),
                  next_pc)

\* STAGE_5: the unparsed chunk files merged, the parsed directory removed.
Stage5MergeUnparsed ==
    /\ pc = "stage_5"
    /\ \E order \in ListOrders :
          MergeEnd(concatenate_unparsed_chunks(files, dirs, ParsedDir, OutDir,
                                               orig_file_name_base, order),
                   ParsedDir, "stage_6")
    /\ UNCHANGED <<config, tasks, records_table_headers_dict, log, parse_calls>>

\* STAGE_6: the chunk tables merged, the tabularized directory removed.
Stage6MergeTables ==
    /\ pc = "stage_6"
    /\ \E order \in ListOrders :
          MergeEnd(concatenate_tabularized_chunks(files, dirs, log_parsers, TabularizedDir,
                                                  OutDir, orig_file_name_base, order),
                   TabularizedDir, "else")
    /\ UNCHANGED <<config, tasks, records_table_headers_dict, log, parse_calls>>

\* except Exception with a cleanup: the output directory is removed before the return.
ParseFileExceptCleanup ==
    /\ pc = "except"
    /\ log' = Append(log, "critical: Parsing failed")
    /\ pc' = "returned"
    /\ files' = remove_temp_directory(files, dirs \cup {OutDir}, OutDir, TRUE).files
    /\ dirs' = remove_temp_directory(files, dirs \cup {OutDir}, OutDir, TRUE).dirs
    /\ UNCHANGED <<config, exc, tasks, records_table_headers_dict, parse_calls>>

\* except Exception: the exception is logged as critical and parse_file returns.
ParseFileExcept ==
    /\ pc = "except"
    /\ IF exc \in Exceptions
       THEN /\ log' = Append(log, "critical: Parsing failed")
            /\ pc' = "returned"
       ELSE /\ pc' = "raised"
            /\ UNCHANGED log
    /\ UNCHANGED <<files, dirs, config, exc, tasks, records_table_headers_dict, parse_calls>>

\* else: the run completed.
ParseFileElse ==
    /\ pc = "else"
    /\ log' = Append(log, "info: Parsing completed")
    /\ pc' = "returned"
    /\ UNCHANGED <<files, dirs, config, exc, tasks, records_table_headers_dict, parse_calls>>

Next ==
    \/ ParseFilePrecondition
    \/ ParseFileBegin
    \/ InitOutputDir
    \/ Stage1Split
    \/ Stage2Begin
    \/ \E i \in 1..Len(params_list) : ParseTask(i)
    \/ Stage2Join
    \/ Stage2Fault
    \/ Stage3Headers
    \/ Stage4Begin
    \/ \E i \in 1..Len(params_list) : TabularizeTask(i)
    \/ Stage4Join
    \/ Stage5MergeUnparsed
    \/ Stage6MergeTables
    \/ ParseFileExcept
    \/ ParseFileElse

Spec == Init /\ [][Next]_vars

\* ---------------------------------------------------------------- runs

\* The lines of the source file, and the chunks the splitter cuts them into.
SourceLines == files[SrcPath]
SourceChunks == ChunksOf(SourceLines, chunk_byte_size)

\* parse_file ended without an exception.
Succeeded == pc \in {"else", "returned"} /\ exc = "none"

\* The final files: the merged table of a parser, and the merged unparsed file.
FinalTablePath(k) == <<OutDir, orig_file_name_base \o <<DotName(k), tsv_ext>> >>
FinalUnparsedPath ==
    <<OutDir, orig_file_name_base \o <<DotName(unparsed_short_name)>> \o split_file_path(SrcName)[2]>>
FinalPaths == {q \in DOMAIN files : q[1] = OutDir}

\* The base name of the chunk file with ID i.
ChunkBase(i) == ChunkName(i, <<>>)

\* The index of the first parser of the configured order that does not signal
\* unparsable on line, 0 when every parser does.
FirstMatch(parsers, line) ==
    IF \A i \in 1..Len(parsers) : Parse(parsers[i], line).kind = "unparsable" THEN 0
    ELSE CHOOSE i \in 1..Len(parsers) :
             /\ Parse(parsers[i], line).kind # "unparsable"
             /\ \A j \in 1..(i - 1) : Parse(parsers[j], line).kind = "unparsable"

\* The lines of lines that parser k claims, and the lines nobody claims.
ClaimedLines(parsers, k, lines) ==
    SelectSeq(lines, LAMBDA l : FirstMatch(parsers, l) # 0 /\ parsers[FirstMatch(parsers, l)] = k)
UnclaimedLines(parsers, lines) == SelectSeq(lines, LAMBDA l : FirstMatch(parsers, l) = 0)

\* ---------------------------------------------------------------- C1

\* The stages of _parse_file_main applied one after the other to a source file that
\* is a single chunk: the files after each stage.
SequentialDirs(parsers) ==
    {SrcDir, OutDir, SplitDir, ParsedDir, TabularizedDir}
        \cup {Append(ParsedDir, k) : k \in Range(parsers) \cup {unparsed_short_name}}
        \cup {Append(TabularizedDir, k) : k \in Range(parsers)}

SequentialParsed(content, parsers) ==
    parse_file_chunk(
        split_file_into_chunks([q \in {SrcPath} |-> content], SrcPath, SplitDir, Bytes(content)),
        SequentialDirs(parsers), parsers,
        <<SplitDir, ChunkName(1, split_file_path(SrcName)[2])>>, ParsedDir).files

RECURSIVE SequentialTables(_, _, _, _)
SequentialTables(fs, parsers, n, headers_dict) ==
    IF n > Len(parsers) THEN fs
    ELSE SequentialTables(
             tabularize_parsed_chunk(fs, parsers[n], RecordsPath(ParsedDir, ChunkBase(1), parsers[n]),
                                     TabularizedDir, headers_dict[parsers[n]]),
             parsers, n + 1, headers_dict)

SequentialTabularized(fs, parsers) ==
    SequentialTables(fs, parsers, 1,
        get_final_table_headers(fs, SequentialDirs(parsers), parsers, ParsedDir, "asc").headers_dict)

SequentialMerged(fs, parsers) ==
    concatenate_tabularized_chunks(
        concatenate_unparsed_chunks(fs, SequentialDirs(parsers), ParsedDir, OutDir,
                                    orig_file_name_base, "asc").files,
        SequentialDirs(parsers), parsers, TabularizedDir, OutDir, orig_file_name_base, "asc").files

SequentialRun(content, parsers) ==
    SequentialMerged(SequentialTabularized(SequentialParsed(content, parsers), parsers), parsers)

SameFinalFiles(fs, reference) ==
    /\ {q \in DOMAIN fs : q[1] = OutDir} = {q \in DOMAIN reference : q[1] = OutDir}
    /\ \A q \in {r \in DOMAIN fs : r[1] = OutDir} : fs[q] = reference[q]

\* C1: when parse_file succeeds, whatever the chunk size, the order of the directory
\* listings and the order in which the tasks completed, the final files (one merged
\* table per parser and the merged unparsed file) are the files that the stages
\* produce when applied one after the other to the whole source file as one chunk.
C1_ChunkedEqualsSequential ==
    Succeeded =>
        /\ FinalPaths = {FinalTablePath(k) : k \in Range(log_parsers)} \cup {FinalUnparsedPath}
        /\ SameFinalFiles(files, SequentialRun(SourceLines, log_parsers))

\* A run over two chunks or more has succeeded, with a merged table of a header of
\* two columns and two rows or more, its keys found in different chunks.
C1_Witness ==
    /\ Succeeded
    /\ Len(SourceChunks) >= 2
    /\ \E k \in Range(log_parsers) :
          /\ Len(files[FinalTablePath(k)]) >= 3
          /\ Len(files[FinalTablePath(k)][1]) = 2

\* ---------------------------------------------------------------- C2

\* The files _parse_file_chunk writes for the chunk file named name.
UnparsedPath(name) ==
    <<Append(ParsedDir, unparsed_short_name),
      split_file_path(name)[1] \o <<DotName(unparsed_short_name)>> \o split_file_path(name)[2]>>

RECURSIVE Sum(_)
Sum(numbers) == IF numbers = <<>> THEN 0 ELSE Head(numbers) + Sum(Tail(numbers))

\* The records of the chunk file named name, over all parsers.
ChunkRecordCount(name) ==
    Sum([n \in 1..Len(log_parsers) |->
            Len(files[RecordsPath(ParsedDir, split_file_path(name)[1], log_parsers[n])])])

\* The data rows of the merged tables, over all parsers.
FinalRowCount ==
    Sum([n \in 1..Len(log_parsers) |-> Len(files[FinalTablePath(log_parsers[n])]) - 1])

\* C2: line conservation. After _parse_file_chunk on a chunk, the records of all
\* parsers and the unparsed lines of the chunk are as many as the lines of the chunk;
\* after a successful run, the data rows of the merged tables and the lines of the
\* merged unparsed file are as many as the lines of the source file.
C2_LineConservation ==
    /\ pc = "stage_2_tasks" =>
          \A i \in done :
              ChunkRecordCount(params_list[i][2]) + Len(files[UnparsedPath(params_list[i][2])])
                  = Len(files[params_list[i]])
    /\ Succeeded => FinalRowCount + Len(files[FinalUnparsedPath]) = Len(SourceLines)

\* A run over two chunks has succeeded on a source file with a blank line that nobody
\* claims and a line that a parser claims.
C2_Witness ==
    /\ Succeeded
    /\ Len(SourceChunks) >= 2
    /\ LineBlank \in Range(SourceLines)
    /\ FinalRowCount >= 1

\* ---------------------------------------------------------------- C3

\* The records parser k returns for the lines claimed.
RecordsOf(k, claimed) == [n \in 1..Len(claimed) |-> Parse(k, claimed[n]).record]

\* The lines of the records file that holds records.
ReprAll(records) == [n \in 1..Len(records) |-> Repr(records[n])]

\* C3: first match wins. A parser is called on a line only when every parser before
\* it in the configured order signalled unparsable on that line (no parser after the
\* claiming one is tried), and when the task of a chunk has completed, the records
\* file of every parser holds the records of exactly the lines of the chunk whose
\* first parser not signalling unparsable it is, in the order of the lines, whatever
\* chunk a line fell into and whatever order the tasks completed in.
C3_FirstMatchWins ==
    /\ \A c \in parse_calls : \A j \in 1..Len(log_parsers) :
          log_parsers[j] = c[1] =>
              \A m \in 1..(j - 1) : Parse(log_parsers[m], c[2]).kind = "unparsable"
    /\ pc = "stage_2_tasks" =>
          \A i \in done : \A k \in Range(log_parsers) :
              files[RecordsPath(ParsedDir, split_file_path(params_list[i][2])[1], k)]
                  = ReprAll(RecordsOf(k, ClaimedLines(log_parsers, k, files[params_list[i]])))

\* Every task of a run over two chunks has completed, with lvl configured before info
\* and a line both of them match in the source file: info was never called on it.
C3_Witness ==
    /\ pc = "stage_2_tasks"
    /\ Len(params_list) >= 2
    /\ done = 1..Len(params_list)
    /\ log_parsers = <<"lvl", "info">>
    /\ LineInfoA \in Range(SourceLines)
    /\ <<"lvl", LineInfoA>> \in parse_calls
    /\ <<"info", LineInfoA>> \notin parse_calls

\* ---------------------------------------------------------------- C4

\* The chunk tables: the files of the directories of the tabularized directory.
ChunkTables == {q \in DOMAIN files : Len(q[1]) = 3 /\ IsPrefix(TabularizedDir, q[1])}
ChunkTablePath(k, i) == <<Append(TabularizedDir, k), ChunkName(i, <<DotName(k), tsv_ext>>)>>

\* C4: schema stability. The first line of every chunk table is the header list that
\* _get_final_table_headers computed for the parser of the table, every row has one
\* cell per header, and when STAGE_4 is over every parser has a table for every chunk,
\* the chunks it has no record of included.
C4_SchemaStability ==
    /\ \A q \in ChunkTables :
          /\ files[q] # <<>>
          /\ files[q][1] = records_table_headers_dict[q[1][3]]
          /\ \A r \in 2..Len(files[q]) : Len(files[q][r]) = Len(files[q][1])
    /\ pc = "stage_5" =>
          \A k \in Range(log_parsers) : \A i \in 1..Len(SourceChunks) :
              ChunkTablePath(k, i) \in ChunkTables

\* STAGE_4 is over, and a parser with a header of two columns has a chunk table
\* without rows and a chunk table with a row.
C4_Witness ==
    /\ pc = "stage_5"
    /\ \E q \in ChunkTables : Len(files[q]) = 1 /\ Len(files[q][1]) = 2
    /\ \E q \in ChunkTables : Len(files[q]) >= 2 /\ Len(files[q][1]) = 2

\* ---------------------------------------------------------------- C5

\* The rows after the header line of the chunk tables 1..n of parser k, in that order.
ChunkTableRows(fs, k, n) == Concat([i \in 1..n |-> Tail(fs[ChunkTablePath(k, i)])])

\* C5: one header row. The step of STAGE_6 that merges the chunk tables leaves, for
\* every parser, a final table that is the header list once, followed by the rows
\* (the lines after the first) of all the chunk tables of the parser, and nothing else.
C5_OneHeaderRow ==
    [][(pc = "stage_6" /\ pc' = "else") =>
          \A k \in Range(log_parsers) :
              files'[FinalTablePath(k)]
                  = <<records_table_headers_dict[k]>> \o ChunkTableRows(files, k, Len(SourceChunks))]_vars

\* Chunk tables of two chunks or more were merged into a table of three lines or more.
C5_Witness ==
    /\ pc = "else"
    /\ Len(SourceChunks) >= 2
    /\ \E k \in Range(log_parsers) :
          /\ Len(files[FinalTablePath(k)]) >= 3
          /\ files[FinalTablePath(k)][1] # <<>>
          /\ files[FinalTablePath(k)][2] # files[FinalTablePath(k)][1]

\* ---------------------------------------------------------------- C6

\* The lines of the unparsed file for the lines nobody claimed.
UnparsedLinesOf(unclaimed) == [n \in 1..Len(unclaimed) |-> Append(Strip(unclaimed[n]), NL)]

\* The rows of the table of parser k for the lines claimed, under header.
RowsOf(k, header, claimed) ==
    Frame(header, [n \in 1..Len(claimed) |-> Eval(Repr(Parse(k, claimed[n]).record))]).rows

\* C6: the merges follow the numeric order of the chunk IDs. After a successful run,
\* whatever order the directory listings had and the tasks completed in, the merged
\* unparsed file holds the lines nobody claimed in the order of the source file, and
\* the rows of every merged table are those of the lines its parser claimed, in the
\* order of the source file; chunk 10 comes after chunk 2.
C6_MergesInChunkOrder ==
    Succeeded =>
        /\ files[FinalUnparsedPath] = UnparsedLinesOf(UnclaimedLines(log_parsers, SourceLines))
        /\ \A k \in Range(log_parsers) :
              Tail(files[FinalTablePath(k)])
                  = RowsOf(k, records_table_headers_dict[k], ClaimedLines(log_parsers, k, SourceLines))

\* A run over ten chunks or more has succeeded, the unparsed lines and the rows of the
\* chunks after the ninth being different from those of the chunks before.
C6_Witness ==
    /\ Succeeded
    /\ Len(SourceChunks) >= 10
    /\ files[FinalUnparsedPath][Len(files[FinalUnparsedPath])] # files[FinalUnparsedPath][1]
    /\ \E k \in Range(log_parsers) :
          files[FinalTablePath(k)][Len(files[FinalTablePath(k)])] # files[FinalTablePath(k)][2]

\* ---------------------------------------------------------------- C7

\* C7: run-level containment. An exception reaches the caller of parse_file only from
\* the assertions, before anything is logged; an exception raised after them leads to
\* the handler of parse_file and nowhere else, and parse_file then returns with
\* exactly one critical record logged, the last one, and no record of completion.
C7_RunLevelContainment ==
    /\ pc = "raised" => exc = "AssertionError" /\ log = <<>>
    /\ exc # "none" => pc \in {"raised", "except", "returned"}
    /\ pc = "except" => exc # "none" /\ log = <<"info: Parsing">>
    /\ (pc = "returned" /\ exc # "none") =>
          log = <<"info: Parsing", "critical: Parsing failed">>
    /\ (pc = "returned" /\ exc = "none") =>
          log = <<"info: Parsing", "info: Parsing completed">>

\* parse_file has returned after a task of STAGE_2 raised.
C7_Witness ==
    /\ pc = "returned"
    /\ exc = "ParserError"
    /\ log[Len(log)] = "critical: Parsing failed"

\* ---------------------------------------------------------------- C8

\* C8: precondition faults. When parse_file is called with a source file that does
\* not exist, or with an explicit output directory that exists, its only step raises
\* AssertionError to the caller and leaves every file and directory, and the log, as
\* they were.
C8_PreconditionFaults ==
    [][(/\ pc = "call"
        /\ SrcPath \notin DOMAIN files \/ (out_dir_path = "given" /\ OutDir \in dirs))
       => /\ pc' = "raised"
          /\ exc' = "AssertionError"
          /\ files' = files
          /\ dirs' = dirs
          /\ log' = log]_vars

\* parse_file has raised for an explicit output directory that exists, the source
\* file being there.
C8_Witness ==
    /\ pc = "raised"
    /\ SrcPath \in DOMAIN files
    /\ out_dir_path = "given"
    /\ OutDir \in dirs
    /\ ParsedDir \notin dirs

\* ---------------------------------------------------------------- C9

\* Parser k claims no line of the source file.
ZeroMatch(k) == ClaimedLines(log_parsers, k, SourceLines) = <<>>

\* A parser raises on a line of the source file.
FaultingLine ==
    \E n \in 1..Len(SourceLines) : TryParsers(log_parsers, 1, SourceLines[n]).kind = "fault"

\* C9: zero-match parser. When a configured parser claims no line of the source file,
\* the run fails only for a reason that is not this parser (an assertion of
\* parse_file, an output directory that cannot be created, a parser raising on a
\* line), and when it succeeds the merged table of that parser is there and is the
\* empty table (one header line without columns), next to the merged tables of the
\* other parsers and the merged unparsed file.
C9_ZeroMatchParser ==
    (SrcPath \in DOMAIN files /\ \E k \in Range(log_parsers) : ZeroMatch(k)) =>
        /\ exc # "none" =>
              \/ exc = "AssertionError" /\ pc = "raised"
              \/ exc = "FileExistsError" /\ SplitDir \notin dirs
              \/ exc = "ParserError" /\ FaultingLine
        /\ Succeeded =>
              /\ \A k \in Range(log_parsers) : ZeroMatch(k) => files[FinalTablePath(k)] = << <<>> >>
              /\ FinalPaths = {FinalTablePath(k) : k \in Range(log_parsers)} \cup {FinalUnparsedPath}

\* A run over two chunks or more has succeeded with a parser that claims no line and
\* a parser whose merged table has rows.
C9_Witness ==
    /\ Succeeded
    /\ Len(SourceChunks) >= 2
    /\ \E k \in Range(log_parsers) : ZeroMatch(k)
    /\ \E k \in Range(log_parsers) : Len(files[FinalTablePath(k)]) >= 2

\* ---------------------------------------------------------------- C10

\* The files of the parsed directory written for the chunk file named name.
ParsedFilesOf(name) ==
    {q \in DOMAIN files : IsPrefix(ParsedDir, q[1]) /\ MaskId(q[2]) = MaskId(name)}

\* C10: task faults are fail-fast. When the task of a chunk has raised, no records,
\* keys or unparsed file of that chunk exists then or later (the task wrote nothing and
\* is not run again), the run goes to the handler of parse_file only, no header list
\* is computed, no chunk table is rendered and no final file is written.
C10_TaskFaultsFailFast ==
    faulted # {} =>
        /\ \A i \in faulted : ParsedFilesOf(params_list[i][2]) = {}
        /\ done \cap faulted = {}
        /\ pc \in {"stage_2_tasks", "except", "returned"}
        /\ pc # "stage_2_tasks" => exc = "ParserError"
        /\ records_table_headers_dict = << >>
        /\ TabularizedDir \notin dirs
        /\ FinalPaths = {}

\* parse_file has returned after the task of a chunk raised and the task of another
\* chunk completed and wrote its files.
C10_Witness ==
    /\ pc = "returned"
    /\ faulted # {}
    /\ done # {}
    /\ \E i \in done : ParsedFilesOf(params_list[i][2]) # {}

\* ---------------------------------------------------------------- C11

\* The chunk files of the split directory, by their chunk IDs.
SplitNames == NamesIn(files, SplitDir)
SplitChunk(i) == files[<<SplitDir, ChunkName(i, split_file_path(SrcName)[2])>>]

\* C11: chunk round-trip. After _split_file_into_chunks, the chunk files are named
\* with the IDs 1..n without a gap, every line of a chunk file is a whole line (it
\* ends with the line end), and the lines of the chunk files in ascending order of
\* their IDs are the lines of the source file.
C11_ChunkRoundTrip ==
    pc = "stage_2" =>
        /\ SplitNames = {ChunkName(i, split_file_path(SrcName)[2]) :
                            i \in 1..Cardinality(SplitNames)}
        /\ \A i \in 1..Cardinality(SplitNames) : \A n \in 1..Len(SplitChunk(i)) :
              SplitChunk(i)[n][Len(SplitChunk(i)[n])] = NL
        /\ Concat([i \in 1..Cardinality(SplitNames) |-> SplitChunk(i)]) = SourceLines

\* The source file was split into three chunks or more, one of them of several lines
\* and one of a single line.
C11_Witness ==
    /\ pc = "stage_2"
    /\ Cardinality(SplitNames) >= 3
    /\ \E i \in 1..Cardinality(SplitNames) : Len(SplitChunk(i)) >= 2
    /\ \E i \in 1..Cardinality(SplitNames) : Len(SplitChunk(i)) = 1

\* ---------------------------------------------------------------- C12

\* C12: no split up to the chunk size. After _split_file_into_chunks on a source file
\* whose size is at most chunk_byte_size (equal to it, or zero, included), the split
\* directory holds one chunk file, chunk_1 with the extension of the source file, and
\* its content is the content of the source file; on a bigger source file the chunk
\* files are the ones Filesplit cuts.
C12_NoSplitUpToChunkSize ==
    pc = "stage_2" =>
        /\ Bytes(SourceLines) <= chunk_byte_size =>
              /\ SplitNames = {ChunkName(1, split_file_path(SrcName)[2])}
              /\ SplitChunk(1) = SourceLines
        /\ Bytes(SourceLines) > chunk_byte_size =>
              /\ Cardinality(SplitNames) = Len(FilesplitChunks(SourceLines, <<>>, chunk_byte_size))
              /\ \A i \in 1..Cardinality(SplitNames) :
                    SplitChunk(i) = FilesplitChunks(SourceLines, <<>>, chunk_byte_size)[i]

\* A source file of two lines whose size is exactly the chunk size was copied as one
\* chunk.
C12_Witness ==
    /\ pc = "stage_2"
    /\ Len(SourceLines) = 2
    /\ Bytes(SourceLines) = chunk_byte_size
    /\ Cardinality(SplitNames) = 1

\* ---------------------------------------------------------------- C13

\* _get_final_table_headers on its own: STAGE_3 of a run with the parser info, whose
\* keys files of two chunks hold any keys among SortKeys.
SortKeys == {<<"b">>, <<"_", "z">>, <<"A">>, <<"_", "a">>, <<"Z">>}
KeysFilePath(i) == KeysPath(ParsedDir, ChunkBase(i), "info")

SortInit ==
    /\ \E keys_1 \in SUBSET SortKeys : \E keys_2 \in SUBSET SortKeys :
          files = [q \in {SrcPath, KeysFilePath(1), KeysFilePath(2)} |->
                      IF q = SrcPath THEN <<>>
                      ELSE IF q = KeysFilePath(1) THEN keys_1 ELSE keys_2]
    /\ dirs = {SrcDir, OutDir, ParsedDir, Append(ParsedDir, "info"),
               Append(ParsedDir, unparsed_short_name)}
    /\ log_parsers = <<"info">>
    /\ chunk_byte_size = SmallChunk
    /\ delete_intermediate_result_dirs = TRUE
    /\ out_dir_path = "given"
    /\ pc = "stage_3"
    /\ exc = "none"
    /\ params_list = <<>>
    /\ done = {}
    /\ faulted = {}
    /\ records_table_headers_dict = << >>
    /\ log = <<"info: Parsing">>
    /\ parse_calls = {}
    /\ task_pc = << >>

SortNext == Stage3Headers

SortSpec == SortInit /\ [][SortNext]_vars

\* The name starts with the marker of a user field.
IsUserField(x) == x # <<>> /\ Head(x) = "_"
LowerText(x) == [i \in 1..Len(x) |-> Lower(x[i])]

\* C13: sort rule. The header list _get_final_table_headers computes for a parser
\* holds every key of the keys files of all chunks, once; no name without a leading
\* underscore comes before a name with one; within each of the two groups the names
\* are in alphabetical order with case ignored; and for the keys b, _z, A, _a the
\* list is _a, _z, A, b.
C13_SortRule ==
    pc = "stage_4" =>
        /\ Range(records_table_headers_dict["info"]) = files[KeysFilePath(1)] \cup files[KeysFilePath(2)]
        /\ Len(records_table_headers_dict["info"])
              = Cardinality(files[KeysFilePath(1)] \cup files[KeysFilePath(2)])
        /\ \A i \in 1..Len(records_table_headers_dict["info"]) :
           \A j \in (i + 1)..Len(records_table_headers_dict["info"]) :
              /\ IsUserField(records_table_headers_dict["info"][j])
                    => IsUserField(records_table_headers_dict["info"][i])
              /\ IsUserField(records_table_headers_dict["info"][i])
                    = IsUserField(records_table_headers_dict["info"][j])
                 => TextLess(LowerText(records_table_headers_dict["info"][i]),
                             LowerText(records_table_headers_dict["info"][j]))
        /\ files[KeysFilePath(1)] \cup files[KeysFilePath(2)]
              = {<<"b">>, <<"_", "z">>, <<"A">>, <<"_", "a">>}
           => records_table_headers_dict["info"] = << <<"_", "a">>, <<"_", "z">>, <<"A">>, <<"b">> >>

\* The header list _a, _z, A, b was computed from the keys b, _z of one chunk and
\* A, _a of the other.
C13_Witness ==
    /\ pc = "stage_4"
    /\ files[KeysFilePath(1)] = {<<"b">>, <<"_", "z">>}
    /\ files[KeysFilePath(2)] = {<<"A">>, <<"_", "a">>}
    /\ records_table_headers_dict["info"] = << <<"_", "a">>, <<"_", "z">>, <<"A">>, <<"b">> >>

\* ---------------------------------------------------------------- C14

\* The records file the chunk table at path q was rendered from.
RecordsFileOf(q) ==
    <<Append(ParsedDir, q[1][3]), Append(SubSeq(q[2], 1, Len(q[2]) - 1), records_ext)>>

\* The cell of a row rendered from the records line under the column named.
CellOf(line, column) == IF column \in DOMAIN Eval(line) THEN Eval(line)[column] ELSE <<>>

\* C14: missing fields. A chunk table has one row per record of its records file, in
\* the order of the records; every row has one cell per column of the header, holding
\* the value of the record where the record has the field and the empty cell where
\* it has not; no tabularize task raises; and the records {a: 1} and {a: 2, b: x}
\* give the header a, b and the rows (1, empty) and (2, x).
C14_MissingFields ==
    /\ \A q \in ChunkTables :
          RecordsFileOf(q) \in DOMAIN files =>
              /\ Len(files[q]) = Len(files[RecordsFileOf(q)]) + 1
              /\ \A r \in 1..Len(files[RecordsFileOf(q)]) :
                    /\ Len(files[q][r + 1]) = Len(files[q][1])
                    /\ \A c \in 1..Len(files[q][1]) :
                          files[q][r + 1][c] = CellOf(files[RecordsFileOf(q)][r], files[q][1][c])
              /\ files[RecordsFileOf(q)] = << << <<"a">>, <<"1">> >>, << <<"a">>, <<"2">>, <<"b">>, <<"x">> >> >> =>
                    files[q] = << << <<"a">>, <<"b">> >>,
                                  << <<"1">>, <<>> >>,
                                  << <<"2">>, <<"x">> >> >>
    /\ pc = "stage_4_tasks" => exc = "none" /\ faulted = {}

\* The chunk table of the records {a: 1} and {a: 2, b: x} was rendered.
C14_Witness ==
    \E q \in ChunkTables :
        /\ RecordsFileOf(q) \in DOMAIN files
        /\ files[RecordsFileOf(q)] = << << <<"a">>, <<"1">> >>, << <<"a">>, <<"2">>, <<"b">>, <<"x">> >> >>
        /\ files[q][2] = << <<"1">>, <<>> >>

\* ---------------------------------------------------------------- C15

\* C15: no cleanup on failure. The step in which a stage raises removes no file and no
\* directory (every file that was there is still there with its content, or longer
\* when a merge was under way), and the handler of parse_file, from the exception to
\* the return, leaves every file and directory as it was.
C15_NoCleanupOnFailure ==
    [][/\ (pc # "except" /\ pc' = "except") =>
              /\ dirs \subseteq dirs'
              /\ DOMAIN files \subseteq DOMAIN files'
              /\ \A q \in DOMAIN files : q[1] # OutDir => files'[q] = files[q]
       /\ pc = "except" => (files' = files /\ dirs' = dirs)]_vars

\* parse_file has returned after a parse task raised: the output directory, the split
\* directory with its chunk files and the parsed directory with the files of the
\* task that completed are there, deletion of the staging directories being enabled.
C15_Witness ==
    /\ pc = "returned"
    /\ exc = "ParserError"
    /\ delete_intermediate_result_dirs
    /\ {OutDir, SplitDir, ParsedDir} \subseteq dirs
    /\ Cardinality(SplitNames) >= 2
    /\ \E q \in DOMAIN files : IsPrefix(ParsedDir, q[1])

\* ---------------------------------------------------------------- C16

\* Every parse task has written the records file of every parser for its chunk.
AllParsed ==
    \A k \in Range(log_parsers) : \A i \in 1..Len(SourceChunks) :
        RecordsPath(ParsedDir, ChunkBase(i), k) \in DOMAIN files

\* Every tabularize task has written its chunk table.
AllTabularized ==
    \A k \in Range(log_parsers) : \A i \in 1..Len(SourceChunks) :
        ChunkTablePath(k, i) \in ChunkTables

\* Where the stages stand: nothing of a stage is there before the stage before it is
\* over for every chunk.
StagesInOrder ==
    /\ pc \in {"stage_3", "stage_4"} => done = 1..Len(params_list) /\ faulted = {}
    /\ pc \in {"stage_3", "stage_4", "stage_4_tasks"} => AllParsed
    /\ pc \in {"stage_4_tasks", "stage_5", "stage_6", "else"} =>
          DOMAIN records_table_headers_dict = Range(log_parsers)
    /\ ChunkTables # {} =>
          pc \in {"stage_4_tasks", "stage_5", "stage_6", "else", "returned", "except"}
    /\ pc \in {"stage_5", "stage_6"} => AllTabularized
    /\ FinalPaths # {} => pc \in {"stage_6", "else", "returned", "except"}

\* C16: stage barrier. The tabularize tasks run only when every parse task has finished
\* and the header list of every parser has been computed; the merges run only when
\* every tabularize task has finished; and from the first chunk table on, no step
\* changes the header lists.
C16_StageBarrier ==
    [][/\ StagesInOrder'
       /\ ChunkTables # {} => records_table_headers_dict' = records_table_headers_dict]_vars

\* Tabularize tasks are running over the records files of two chunks or more: a chunk
\* table is rendered, another is not.
C16_Witness ==
    /\ pc = "stage_4_tasks"
    /\ Len(SourceChunks) >= 2
    /\ ChunkTables # {}
    /\ done # 1..Len(params_list)
    /\ AllParsed

\* ---------------------------------------------------------------- task steps

\* os.makedirs(dir_path) raising whenever the directory is there.
makedirs_not_ok(ds, dir_path, exist_ok) ==
    IF dir_path \in ds THEN [exc |-> "FileExistsError", dirs |-> ds]
    ELSE [exc |-> "none", dirs |-> ds \cup {SubSeq(dir_path, 1, n) : n \in 1..Len(dir_path)}]

\* os.makedirs(dir_path, exist_ok=exist_ok): a directory that is there raises
\* FileExistsError unless exist_ok is set.
makedirs(ds, dir_path, exist_ok) ==
    IF dir_path \in ds
    THEN [exc |-> IF exist_ok THEN "none" ELSE "FileExistsError", dirs |-> ds]
    ELSE [exc |-> "none", dirs |-> ds \cup {SubSeq(dir_path, 1, n) : n \in 1..Len(dir_path)}]

\* The file system operations of a task, in the order of the code. _parse_file_chunk:
\* the directory of every parser, the records file of every parser, the keys file of
\* every parser, the directory and the file of the unparsed logs.
ParseOps(parsers, src_file_path) ==
    [n \in 1..Len(parsers) |-> [kind |-> "mkdir", path |-> Append(ParsedDir, parsers[n])]]
    \o [n \in 1..Len(parsers) |->
           [kind |-> "write",
            path |-> RecordsPath(ParsedDir, split_file_path(src_file_path[2])[1], parsers[n])]]
    \o [n \in 1..Len(parsers) |->
           [kind |-> "write",
            path |-> KeysPath(ParsedDir, split_file_path(src_file_path[2])[1], parsers[n])]]
    \o <<[kind |-> "mkdir", path |-> Append(ParsedDir, unparsed_short_name)],
         [kind |-> "write", path |-> UnparsedPath(src_file_path[2])]>>

\* _tabularize_parsed_chunk: the directory of the parser, the chunk table.
TabularizeOps(parser_name, src_file_path) ==
    <<[kind |-> "mkdir", path |-> Append(TabularizedDir, parser_name)],
      [kind |-> "write",
       path |-> <<Append(TabularizedDir, parser_name),
                  Append(split_file_path(src_file_path[2])[1], tsv_ext)>>]>>

TaskOps(i) ==
    IF pc = "stage_2_tasks" THEN ParseOps(log_parsers, params_list[i])
    ELSE TabularizeOps(params_list[i][1], params_list[i][2])

\* The files as the task writes them.
TaskFiles(i) ==
    IF pc = "stage_2_tasks"
    THEN parse_file_chunk(files, dirs, log_parsers, params_list[i], ParsedDir).files
    ELSE tabularize_parsed_chunk(files, params_list[i][1], params_list[i][2], TabularizedDir,
                                 records_table_headers_dict[params_list[i][1]])

\* Where task i is: the operation it is at, and for _create_temp_directory whether
\* os.path.exists has answered (phase "make") or not yet (phase "check").
At(i) == IF i \in DOMAIN task_pc THEN task_pc[i] ELSE [op |-> 1, phase |-> "check"]

TaskAt(i, kind, phase) ==
    /\ pc \in {"stage_2_tasks", "stage_4_tasks"}
    /\ CanComplete(i)
    /\ At(i).op <= Len(TaskOps(i))
    /\ TaskOps(i)[At(i).op].kind = kind
    /\ At(i).phase = phase

Moved(i, at) == [j \in DOMAIN task_pc \cup {i} |-> IF j = i THEN at ELSE task_pc[j]]

\* Task i goes on to its next operation, and has finished after the last.
TaskAdvance(i) ==
    /\ task_pc' = Moved(i, [op |-> At(i).op + 1, phase |-> "check"])
    /\ done' = IF At(i).op = Len(TaskOps(i)) THEN done \cup {i} ELSE done
    /\ UNCHANGED faulted

\* _create_temp_directory, first half: os.path.exists(dir_path).
TaskExists(i) ==
    /\ TaskAt(i, "mkdir", "check")
    /\ IF TaskOps(i)[At(i).op].path \in dirs
       THEN TaskAdvance(i)
       ELSE /\ task_pc' = Moved(i, [op |-> At(i).op, phase |-> "make"])
            /\ UNCHANGED <<done, faulted>>
    /\ UNCHANGED <<files, dirs, config, pc, exc, params_list, records_table_headers_dict, log,
                   parse_calls>>

TaskMade(i, made) ==
    IF made.exc # "none"
    THEN /\ faulted' = faulted \cup {i}
         /\ UNCHANGED <<dirs, done, task_pc>>
    ELSE /\ dirs' = made.dirs
         /\ TaskAdvance(i)

\* _create_temp_directory, second half: os.makedirs(dir_path, exist_ok=True).
TaskMakedirs(i) ==
    /\ TaskAt(i, "mkdir", "make")
    /\ TaskMade(i, makedirs(dirs, TaskOps(i)[At(i).op].path, TRUE))
    /\ UNCHANGED <<files, config, pc, exc, params_list, records_table_headers_dict, log,
                   parse_calls>>

\* open(path, 'w+') and the writes of one file.
TaskWrite(i) ==
    /\ TaskAt(i, "write", "check")
    /\ files' = WriteFile(files, TaskOps(i)[At(i).op].path, TaskFiles(i)[TaskOps(i)[At(i).op].path])
    /\ TaskAdvance(i)
    /\ UNCHANGED <<dirs, config, pc, exc, params_list, records_table_headers_dict, log,
                   parse_calls>>

\* The runs with the tasks taken operation by operation: source files whose lines no
\* parser raises on, an output directory that is not there.
RaceLines == {LineInfoA, LineWarn, LineGarbage}

RaceInit ==
    /\ files \in {[q \in {SrcPath} |-> content] : content \in SeqsUpTo(RaceLines, MaxLines)}
    /\ dirs = {SrcDir}
    /\ log_parsers \in ParserLists
    /\ chunk_byte_size \in {SmallChunk, LargeChunk}
    /\ delete_intermediate_result_dirs = TRUE
    /\ out_dir_path = "given"
    /\ pc = "call"
    /\ exc = "none"
    /\ params_list = <<>>
    /\ done = {}
    /\ faulted = {}
    /\ records_table_headers_dict = << >>
    /\ log = <<>>
    /\ parse_calls = {}
    /\ task_pc = << >>

RaceNext ==
    \/ ParseFileBegin
    \/ InitOutputDir
    \/ Stage1Split
    \/ Stage2Begin
    \/ \E i \in 1..Len(params_list) : TaskExists(i)
    \/ \E i \in 1..Len(params_list) : TaskMakedirs(i)
    \/ \E i \in 1..Len(params_list) : TaskWrite(i)
    \/ Stage2Join
    \/ Stage3Headers
    \/ Stage4Begin
    \/ Stage4Join
    \/ Stage5MergeUnparsed
    \/ Stage6MergeTables
    \/ ParseFileElse

RaceSpec == RaceInit /\ [][RaceNext]_vars

\* ---------------------------------------------------------------- C17

\* The paths task i writes files at.
WritePaths(i) == {TaskOps(i)[n].path : n \in {m \in 1..Len(TaskOps(i)) : TaskOps(i)[m].kind = "write"}}

\* No two tasks of the stage under way write a file at the same path.
DisjointWrites ==
    pc \in {"stage_2_tasks", "stage_4_tasks"} =>
        \A i \in 1..Len(params_list) : \A j \in 1..Len(params_list) :
            i # j => WritePaths(i) \cap WritePaths(j) = {}

\* A run that succeeded wrote the final files of the stages applied one by one.
RacedRunAsSequential ==
    Succeeded => SameFinalFiles(files, SequentialRun(SourceLines, log_parsers))

\* The files of the tasks of the stage under way: a file a task has written is there
\* with the content the task gives it, and a file a task has yet to write is not.
WritesOwnFiles ==
    pc \in {"stage_2_tasks", "stage_4_tasks"} =>
        \A i \in 1..Len(params_list) :
            \A n \in {m \in 1..Len(TaskOps(i)) : TaskOps(i)[m].kind = "write"} :
                IF n < At(i).op
                THEN /\ TaskOps(i)[n].path \in DOMAIN files
                     /\ files[TaskOps(i)[n].path] = TaskFiles(i)[TaskOps(i)[n].path]
                ELSE TaskOps(i)[n].path \notin DOMAIN files

\* C17: task isolation. With the tasks of the parse stage and of the tabularize stage
\* interleaved operation by operation, the tasks of a stage write at paths that are
\* different from task to task, every file is written by its own task only (it is not
\* there before, and holds what the task wrote after), no task fails in whatever
\* order the tasks test and create the directories they share, and the run ends with
\* the final files of the stages applied one by one.
C17_TaskIsolation ==
    /\ DisjointWrites
    /\ WritesOwnFiles
    /\ faulted = {}
    /\ exc = "none"
    /\ RacedRunAsSequential

\* Two tasks race for a directory: one is about to create the directory it found
\* absent, and the other has created it since and finished.
C17_Witness ==
    /\ pc \in {"stage_2_tasks", "stage_4_tasks"}
    /\ done # {}
    /\ \E i \in 1..Len(params_list) :
          /\ i \notin done
          /\ At(i).op <= Len(TaskOps(i))
          /\ TaskOps(i)[At(i).op].kind = "mkdir"
          /\ At(i).phase = "make"
          /\ TaskOps(i)[At(i).op].path \in dirs

\* ---------------------------------------------------------------- C18

StagingDirs == {SplitDir, ParsedDir, TabularizedDir}

\* The directories and files under the staging directories.
StagingLeft ==
    {d \in dirs : \E s \in StagingDirs : IsPrefix(s, d)}
        \cup {q \in DOMAIN files : \E s \in StagingDirs : IsPrefix(s, q[1])}

\* C18: staging directory lifecycle. A staging directory is there as long as a stage
\* reads it: the split directory while the parse tasks run, the parsed directory from
\* schema unification to the unparsed merge, the tabularized directory from the
\* tabularize tasks to the table merge, and no stage raises for a directory that is
\* not there. After a successful run, with deletion enabled nothing is left of the
\* three staging directories, and with retention enabled the three of them are there.
C18_StagingLifecycle ==
    /\ pc \in {"stage_2", "stage_2_tasks"} =>
          /\ SplitDir \in dirs
          /\ \A i \in 1..Len(SourceChunks) :
                <<SplitDir, ChunkName(i, split_file_path(SrcName)[2])>> \in DOMAIN files
    /\ pc \in {"stage_3", "stage_4", "stage_4_tasks", "stage_5"} => ParsedDir \in dirs /\ AllParsed
    /\ pc \in {"stage_4_tasks", "stage_5", "stage_6"} => TabularizedDir \in dirs
    /\ pc = "stage_6" => AllTabularized
    /\ exc # "FileNotFoundError"
    /\ (Succeeded /\ delete_intermediate_result_dirs) => StagingLeft = {}
    /\ (Succeeded /\ ~delete_intermediate_result_dirs) =>
          /\ StagingDirs \subseteq dirs
          /\ AllParsed
          /\ AllTabularized

\* A run over two chunks or more has succeeded with deletion enabled: the final files
\* are in the output directory and nothing else is.
C18_Witness ==
    /\ Succeeded
    /\ delete_intermediate_result_dirs
    /\ Len(SourceChunks) >= 2
    /\ OutDir \in dirs
    /\ FinalPaths # {}
    /\ StagingLeft = {}

\* ---------------------------------------------------------------- _create_temp_directory

\* A file an earlier run left in the split directory.
LeftoverPath == <<SplitDir, ChunkName(1, split_file_path(SrcName)[2])>>

\* The file systems _create_temp_directory is called in: every set of directories
\* closed under parents, the split directory empty or holding a file.
CreateFileSystems ==
    {fd \in [files : {NoFiles, [q \in {LeftoverPath} |-> <<LineInfoA>>]},
             dirs : SUBSET ({SrcDir, OutDir} \cup StagingDirs)] :
        /\ \A d \in fd.dirs : \A n \in 1..Len(d) : SubSeq(d, 1, n) \in fd.dirs
        /\ \A q \in DOMAIN fd.files : q[1] \in fd.dirs}

\* A call _create_temp_directory(dir_path, exist_ok): params_list holds its parameters.
CreateInit ==
    /\ \E fd \in CreateFileSystems :
          /\ files = fd.files
          /\ dirs = fd.dirs
    /\ params_list \in {<< <<dir_path, exist_ok>> >> : dir_path \in StagingDirs, exist_ok \in BOOLEAN}
    /\ log_parsers = <<"info">>
    /\ chunk_byte_size = SmallChunk
    /\ delete_intermediate_result_dirs \in BOOLEAN
    /\ out_dir_path = "given"
    /\ pc = "create"
    /\ exc = "none"
    /\ done = {}
    /\ faulted = {}
    /\ records_table_headers_dict = << >>
    /\ log = <<>>
    /\ parse_calls = {}
    /\ task_pc = << >>

\* The call: what create_temp_directory does to the directories, an exception it
\* raises reaching the caller.
CreateTempDirectory ==
    /\ pc = "create"
    /\ LET r == create_temp_directory(dirs, params_list[1][1], params_list[1][2])
       IN  /\ dirs' = r.dirs
           /\ exc' = r.exc
           /\ pc' = IF r.exc = "none" THEN "created" ELSE "raised"
    /\ UNCHANGED <<files, config, tasks, records_table_headers_dict, log, parse_calls>>

CreateNext == CreateTempDirectory

CreateSpec == CreateInit /\ [][CreateNext]_vars

\* ---------------------------------------------------------------- C19

\* C19: staging directory creation refuses an existing directory. A call of
\* _create_temp_directory for a path that exists, with exist_ok false, signals an
\* error to its caller instead of continuing silently.
C19_CreateRefusesExisting ==
    [][(pc = "create" /\ params_list[1][1] \in dirs /\ ~params_list[1][2])
          => (pc' = "raised" /\ exc' = "FileExistsError")]_vars

\* The call has returned without an exception for the split directory, exist_ok
\* false, and the file the directory held before the call is still in it.
C19_Witness ==
    /\ pc = "created"
    /\ exc = "none"
    /\ params_list = << <<SplitDir, FALSE>> >>
    /\ LeftoverPath \in DOMAIN files
    /\ SplitDir \in dirs

\* ---------------------------------------------------------------- C20

\* The unparsed file of chunk i.
ChunkUnparsedPath(i) == UnparsedPath(ChunkName(i, split_file_path(SrcName)[2]))

\* The lines of the unparsed file for the lines nobody claimed, were only their
\* trailing whitespace removed.
RStrippedLinesOf(unclaimed) == [n \in 1..Len(unclaimed) |-> Append(RStrip(unclaimed[n]), NL)]

\* C20: a line that no parser claims is stored with only its trailing whitespace
\* removed. When the parse tasks are over, the unparsed file of every chunk holds, in
\* the order of the chunk, the lines of the chunk nobody claimed, each without its
\* trailing whitespace and otherwise unchanged, leading whitespace included.
C20_OnlyTrailingWhitespaceRemoved ==
    pc = "stage_3" =>
        \A i \in 1..Len(SourceChunks) :
            /\ ChunkUnparsedPath(i) \in DOMAIN files
            /\ files[ChunkUnparsedPath(i)]
                  = RStrippedLinesOf(UnclaimedLines(log_parsers, SourceChunks[i]))

\* The parse tasks are over for a source file of two lines nobody claims, the first
\* with leading whitespace, and the unparsed file of the chunk holds the first without
\* its leading whitespace, before the second.
C20_Witness ==
    /\ pc = "stage_3"
    /\ Len(SourceChunks) = 1
    /\ SourceChunks[1] = <<LineGarbage, LineWarn>>
    /\ UnclaimedLines(log_parsers, SourceChunks[1]) = <<LineGarbage, LineWarn>>
    /\ files[ChunkUnparsedPath(1)] = << <<"G", NL>>, <<"W", NL>> >>

\* ---------------------------------------------------------------- C21

\* The chunk IDs of the run.
ChunkIds == 1..Len(SourceChunks)

\* The names of the files a complete parse stage leaves in the directory of parser k
\* of the parsed directory: a records and a keys file per chunk.
ParsedNames(k) ==
    {RecordsPath(ParsedDir, ChunkBase(i), k)[2] : i \in ChunkIds}
        \cup {KeysPath(ParsedDir, ChunkBase(i), k)[2] : i \in ChunkIds}

\* The tabularized directory holds, for every parser, its directory with one table
\* per chunk and nothing else.
OneTablePerChunk ==
    \A k \in Range(log_parsers) :
        /\ Append(TabularizedDir, k) \in dirs
        /\ NamesIn(files, Append(TabularizedDir, k)) = {ChunkTablePath(k, i)[2] : i \in ChunkIds}

\* C21: the chunk files are complete when the mergers run. When the run has reached
\* the merge of the unparsed files, every parser has its directory in the parsed
\* directory with one records file and one keys file per chunk and nothing else, the
\* unparsed directory holds one unparsed file per chunk, and every parser has its
\* directory in the tabularized directory with one table per chunk, the chunks the
\* parser claimed no line of included; the tables are still so at the merge of the
\* tables. There is a chunk at least, so no list a merger indexes at 0 is empty, and
\* no merger raises for an empty list or a directory that is not there.
C21_ChunkFilesComplete ==
    /\ pc \in {"stage_5", "stage_6"} =>
          /\ ChunkIds # {}
          /\ OneTablePerChunk
    /\ pc = "stage_5" =>
          /\ \A k \in Range(log_parsers) :
                /\ Append(ParsedDir, k) \in dirs
                /\ NamesIn(files, Append(ParsedDir, k)) = ParsedNames(k)
          /\ Append(ParsedDir, unparsed_short_name) \in dirs
          /\ NamesIn(files, Append(ParsedDir, unparsed_short_name))
                = {ChunkUnparsedPath(i)[2] : i \in ChunkIds}
    /\ exc \notin {"IndexError", "FileNotFoundError"}

\* The run is at the merge of the tables over two chunks or more, a parser that
\* claimed no line of the first chunk and a line of another has a table for both.
C21_Witness ==
    /\ pc = "stage_6"
    /\ Len(SourceChunks) >= 2
    /\ \E k \in Range(log_parsers) :
          /\ ClaimedLines(log_parsers, k, SourceChunks[1]) = <<>>
          /\ \E i \in ChunkIds : ClaimedLines(log_parsers, k, SourceChunks[i]) # <<>>
          /\ Len(files[ChunkTablePath(k, 1)]) = 1
          /\ \E i \in ChunkIds : Len(files[ChunkTablePath(k, i)]) >= 2

====
